---- MODULE Spec2Model ----
(***************************************************************************)
(* Model of the DIY-assistant generation orchestrator (App.tsx in its two  *)
(* revisions, StepVisualizer.tsx).  React state is the model state; every  *)
(* event handler, promise continuation and the orchestrator useEffect is   *)
(* one atomic action (single-threaded, run-to-completion).                 *)
(*                                                                         *)
(* version = "v1": App with variants + room-tour video.                    *)
(* version = "v2": App with summary audio + night-tour video.              *)
(*                                                                         *)
(* effectPending: a handler that changes a dependency of the orchestrator  *)
(* useEffect makes the effect due; React flushes a due effect before it    *)
(* handles the next event, so every other action waits for it.             *)
(*                                                                         *)
(* Spec is one planning session (no reset).  SpecSessions follows the      *)
(* application across resets (SpecVariantSessions: with the variant        *)
(* batches alone among the derived media), SpecAuto the automatic chain,   *)
(* SpecMaterials the material modal and SpecEdit the substep checklist.    *)
(* SpecEditing is the checklist editor with every editing operation,       *)
(* SpecStore a session that fills the store and is then reset, SpecMedia   *)
(* every kind of Gateway call with both outcomes, SpecPlayer the summary   *)
(* slideshow (SummaryPlayer.tsx), and SpecPolling the tour videos with the *)
(* requests each call makes (geminiService.ts).                            *)
(***************************************************************************)
EXTENDS Integers, Sequences, FiniteSets, TLC

\* ---- bounds --------------------------------------------------------------
MaxSteps == 3       \* largest number of steps a synthesized plan has
MaxCalls == 6       \* step-image Gateway calls issued in one behaviour
MaxResets == 1      \* user resets in one behaviour
MaxSessionCalls == 2    \* step-image calls in a behaviour that follows resets
MaxMaterialCalls == 3   \* product-image calls outstanding together
MaxSubsteps == 3        \* longest substep list of a synthesized step
MaxEditLen == 2         \* longest substep list the editor grows by Add Step
MaxDuration == 2        \* longest decoded summary audio, in ticks
MaxPlaybacks == 1       \* initAudio calls in one behaviour
MaxPolls == 2           \* getVideosOperation polls of one video call

\* ---- values --------------------------------------------------------------
Null == <<>>        \* null / undefined; a present value x is held as <<x>>
Some(x) == <<x>>
NoCtx == -1         \* an undefined reference image (text-to-image fallback)
OrigImage == 0      \* currentImage.base64, the uploaded current-state photo
EmptyMap == [k \in {} |-> 0]
VariantNames == {"Golden Hour Glow", "Evening Ambience", "Wide Perspective"}
MaterialNames == {"paint", "drill"}     \* item.name of plan.materials
SubstepTexts == {"A", "B", "C"}         \* texts a substep can have

VARIABLES
    version,              \* which revision of App is running
    appState,             \* AppState enum
    inspirationImage,     \* Null or an uploaded image
    currentImage,         \* Null or Some(OrigImage)
    plan,                 \* Null or the sequence of steps
    stepVisuals,          \* stepNumber -> image [id, ctx]
    generatingStepIndex,  \* Null or Some(step being auto-generated)
    videoUrl,             \* v1: Null or Some(id of the image it was made from)
    isVideoLoading,       \* v1
    variants,             \* v1: variant name -> id of the image it was made from
    isVariantsLoading,    \* v1
    summaryAudioBuffer,   \* v2: Null or Some("audio")
    isSummaryLoading,     \* v2
    showSummaryPlayer,    \* v2
    nightVideoUrl,        \* v2: Null or Some(id of the image it was made from)
    isNightVideoLoading,  \* v2
    internalLoading,      \* StepVisualizer state, one per step
    requests,             \* outstanding step-image Gateway calls
    calls,                \* number of step-image Gateway calls issued so far
    derivedCalls,         \* outstanding variant / video / audio calls
    epoch,                \* number of resets so far (component generations)
    effectPending,        \* a commit happened, the orchestrator effect is due
    pausedAt,             \* Null or Some(step whose last automatic attempt failed)
    materialImages,       \* material name -> cached product image
    selectedMaterial,     \* Null or Some(name of the material shown in the modal)
    generatingMaterialImage,
    materialCalls,        \* material name -> outstanding product-image calls
    completedSubsteps,    \* <<step index, substep index>> -> completion flag
    batchBase,            \* history: Null or Some(final image the last variant
                          \* batch was started for)
    editingSubstep,       \* Null or Some([sIdx, subIdx]) of the row being edited
    editValue,            \* text of the edit input
    currentImageIndex,    \* SummaryPlayer: index of the slide shown
    isPlaying,            \* SummaryPlayer: playback indicator
    playerDeps,           \* SummaryPlayer: Null (not mounted) or Some(<<isOpen,
                          \* audioBuffer>>) as seen by the last run of its effect
    audioInits,           \* initAudio calls waiting at an await, each with the
                          \* images.length of the render that started it
    playbacks,            \* the playbacks started so far: source node and
                          \* animation loop of each
    sourceNodeRef,        \* Null or Some(playback whose source the ref holds)
    rafRef,               \* Null or Some(playback whose frame was requested last)
    startTimeRef,
    durationRef,
    currentTime           \* audioContext.currentTime, in ticks

appVars == <<version, appState, inspirationImage, currentImage, plan>>
v1Vars == <<videoUrl, isVideoLoading, variants, isVariantsLoading>>
v2Vars == <<summaryAudioBuffer, isSummaryLoading, showSummaryPlayer,
            nightVideoUrl, isNightVideoLoading>>
materialVars == <<materialImages, selectedMaterial, generatingMaterialImage,
                  materialCalls>>
editVars == <<editingSubstep, editValue>>
playerVars == <<currentImageIndex, isPlaying, playerDeps, audioInits, playbacks,
                sourceNodeRef, rafRef, startTimeRef, durationRef, currentTime>>
vars == <<version, appState, inspirationImage, currentImage, plan,
          stepVisuals, generatingStepIndex, videoUrl, isVideoLoading,
          variants, isVariantsLoading, summaryAudioBuffer, isSummaryLoading,
          showSummaryPlayer, nightVideoUrl, isNightVideoLoading,
          internalLoading, requests, calls, derivedCalls, epoch, effectPending,
          pausedAt, materialImages, selectedMaterial, generatingMaterialImage,
          materialCalls, completedSubsteps, batchBase, editingSubstep,
          editValue, currentImageIndex, isPlaying, playerDeps, audioInits,
          playbacks, sourceNodeRef, rafRef, startTimeRef, durationRef,
          currentTime>>

\* ---- helpers -------------------------------------------------------------
\* A plan as returned by generateDIYPlan: steps numbered 1..n.
NewPlan(n) == [i \in 1..n |-> [stepNumber |-> i, substeps |-> <<"A", "B", "C">>]]

Has(n) == n \in DOMAIN stepVisuals

PendingOf(kind) == {r \in requests : r.kind = kind}

\* Image identities are opaque strings; an id is in use while some stored or
\* outstanding value refers to it, and a new call takes the least unused id.
UsedIds ==
    {stepVisuals[k].id : k \in DOMAIN stepVisuals}
      \cup {stepVisuals[k].ctx : k \in DOMAIN stepVisuals}
      \cup {r.id : r \in requests} \cup {r.ctx : r \in requests}
      \cup {b.base : b \in {d \in derivedCalls : d.kind # "audio"}}
      \cup {variants[c] : c \in DOMAIN variants}
      \cup {videoUrl[i] : i \in DOMAIN videoUrl}
      \cup {nightVideoUrl[i] : i \in DOMAIN nightVideoUrl}
      \cup {batchBase[i] : i \in DOMAIN batchBase}
FreshId ==
    CHOOSE i \in 1..(Cardinality(UsedIds) + 1) :
        i \notin UsedIds /\ \A j \in 1..(i - 1) : j \in UsedIds

\* The image a call resolves to: it remembers the context it was made from.
ImageOf(r) == [id |-> r.id, ctx |-> r.ctx]

IssueCall(kind, step, ctx) ==
    /\ calls < MaxCalls
    /\ calls' = calls + 1
    /\ requests' = requests \cup
         {[id |-> FreshId, kind |-> kind, step |-> step, ctx |-> ctx,
           epoch |-> epoch]}

Settle(r) == requests' = requests \ {r} /\ UNCHANGED calls

isFinalStepVisualized ==
    IF plan = Null THEN FALSE ELSE Has(plan[Len(plan)].stepNumber)

\* plan.steps.find(step => !stepVisuals[step.stepNumber])
nextStep_findLast == plan[CHOOSE i \in {k \in DOMAIN plan : ~Has(plan[k].stepNumber)} :
                            \A j \in {k \in DOMAIN plan : ~Has(plan[k].stepNumber)} : j <= i]
MissingSteps == {i \in DOMAIN plan : ~Has(plan[i].stepNumber)}
nextStep == plan[CHOOSE i \in MissingSteps : \A j \in MissingSteps : i <= j]

\* setStepVisuals updater of handleStepVisualGenerated
handleStepVisualGenerated_keepsLater(prev, index, imageUrl) ==
    [k \in DOMAIN prev \cup {index} |-> IF k = index THEN imageUrl ELSE prev[k]]
handleStepVisualGenerated(prev, index, imageUrl) ==
    LET keys == (DOMAIN prev \cup {index}) \ {k \in DOMAIN prev : k > index}
    IN [k \in keys |-> IF k = index THEN imageUrl ELSE prev[k]]

\* handleStepVisualGenerated as a whole: the updater plus the invalidations
StepVisualGenerated(index, imageUrl) ==
    /\ stepVisuals' = handleStepVisualGenerated(stepVisuals, index, imageUrl)
    /\ IF version = "v1"
       THEN /\ variants' = EmptyMap
            /\ UNCHANGED <<videoUrl, nightVideoUrl, summaryAudioBuffer>>
       ELSE /\ nightVideoUrl' = Null
            /\ summaryAudioBuffer' = Null
            /\ UNCHANGED <<videoUrl, variants>>

\* The summary player and the material modal are full-screen overlays
\* (fixed inset-0 z-50): while one is shown no control under it can be clicked.
ModalOpen ==
    appState = "RESULT" /\ (showSummaryPlayer \/ selectedMaterial # Null)

NoStepVisualGenerated ==
    UNCHANGED <<stepVisuals, variants, videoUrl, nightVideoUrl, summaryAudioBuffer>>

\* ---- initial state -------------------------------------------------------
\* useState<{sIdx: number, subIdx: number} | null>(null), useState("")
EditInit ==
    /\ editingSubstep = Null
    /\ editValue = ""

\* SummaryPlayer: useState(0), useState(false), useRef(null), useRef(0); the
\* component is rendered by the result screen only
PlayerInit ==
    /\ currentImageIndex = 0
    /\ isPlaying = FALSE
    /\ playerDeps = Null
    /\ audioInits = <<>>
    /\ playbacks = <<>>
    /\ sourceNodeRef = Null
    /\ rafRef = Null
    /\ startTimeRef = 0
    /\ durationRef = 0
    /\ currentTime = 0

Init ==
    /\ version \in {"v1", "v2"}
    /\ appState = "INPUT"
    /\ inspirationImage = Null
    /\ currentImage = Null
    /\ plan = Null
    /\ stepVisuals = EmptyMap
    /\ generatingStepIndex = Null
    /\ videoUrl = Null
    /\ isVideoLoading = FALSE
    /\ variants = EmptyMap
    /\ isVariantsLoading = FALSE
    /\ summaryAudioBuffer = Null
    /\ isSummaryLoading = FALSE
    /\ showSummaryPlayer = FALSE
    /\ nightVideoUrl = Null
    /\ isNightVideoLoading = FALSE
    /\ internalLoading = [n \in 1..MaxSteps |-> FALSE]
    /\ requests = {}
    /\ calls = 0
    /\ derivedCalls = {}
    /\ epoch = 0
    /\ effectPending = FALSE
    /\ pausedAt = Null
    /\ materialImages = EmptyMap
    /\ selectedMaterial = Null
    /\ generatingMaterialImage = FALSE
    /\ materialCalls = [m \in MaterialNames |-> 0]
    /\ completedSubsteps = EmptyMap
    /\ batchBase = Null
    /\ EditInit
    /\ PlayerInit

\* ---- input screen --------------------------------------------------------
handleFileSelect ==
    /\ ~effectPending /\ ~ModalOpen
    /\ appState = "INPUT"
    /\ \/ inspirationImage' = Some("inspiration") /\ UNCHANGED currentImage
       \/ currentImage' = Some(OrigImage) /\ UNCHANGED inspirationImage
    /\ UNCHANGED <<editVars, playerVars, materialVars, completedSubsteps,
                   batchBase,
                   version, appState, plan, stepVisuals, generatingStepIndex,
                   v1Vars, v2Vars, internalLoading, requests, calls, derivedCalls,
                   epoch, effectPending, pausedAt>>

handleSubmit_keepsVisuals ==
    /\ ~effectPending /\ ~ModalOpen
    /\ appState = "INPUT"
    /\ inspirationImage # Null /\ currentImage # Null
    /\ appState' = "ANALYZING"
    /\ stepVisuals' = stepVisuals
    /\ generatingStepIndex' = Null
    /\ IF version = "v1"
       THEN /\ videoUrl' = Null
            /\ variants' = EmptyMap
            /\ UNCHANGED <<summaryAudioBuffer, nightVideoUrl>>
       ELSE /\ summaryAudioBuffer' = Null
            /\ nightVideoUrl' = Null
            /\ UNCHANGED <<videoUrl, variants>>
    /\ completedSubsteps' = EmptyMap
    /\ materialImages' = EmptyMap
    /\ effectPending' = TRUE
    /\ UNCHANGED <<editVars, playerVars, version, inspirationImage,
                   currentImage, plan,
                   isVideoLoading, isVariantsLoading, isSummaryLoading,
                   showSummaryPlayer, isNightVideoLoading, internalLoading,
                   requests, calls, derivedCalls, epoch, pausedAt,
                   selectedMaterial, generatingMaterialImage, materialCalls,
                   batchBase>>
handleSubmit ==
    /\ ~effectPending /\ ~ModalOpen
    /\ appState = "INPUT"
    /\ inspirationImage # Null /\ currentImage # Null
    /\ appState' = "ANALYZING"
    /\ stepVisuals' = EmptyMap
    /\ generatingStepIndex' = Null
    /\ IF version = "v1"
       THEN /\ videoUrl' = Null
            /\ variants' = EmptyMap
            /\ UNCHANGED <<summaryAudioBuffer, nightVideoUrl>>
       ELSE /\ summaryAudioBuffer' = Null
            /\ nightVideoUrl' = Null
            /\ UNCHANGED <<videoUrl, variants>>
    /\ completedSubsteps' = EmptyMap
    /\ materialImages' = EmptyMap
    /\ effectPending' = TRUE
    /\ UNCHANGED <<editVars, playerVars, version, inspirationImage,
                   currentImage, plan,
                   isVideoLoading, isVariantsLoading, isSummaryLoading,
                   showSummaryPlayer, isNightVideoLoading, internalLoading,
                   requests, calls, derivedCalls, epoch, pausedAt,
                   selectedMaterial, generatingMaterialImage, materialCalls,
                   batchBase>>

\* generateDIYPlan resolves (a plan of n steps) or rejects
PlanResolved_resultOnFailure ==
    /\ ~effectPending
    /\ appState = "ANALYZING"
    /\ \/ \E n \in 1..MaxSteps :
             /\ plan' = NewPlan(n)
             /\ appState' = "RESULT"
       \/ /\ appState' = "RESULT"
          /\ UNCHANGED plan
    /\ effectPending' = TRUE
    /\ UNCHANGED <<editVars, playerVars, materialVars, completedSubsteps,
                   batchBase,
                   version, inspirationImage, currentImage, stepVisuals,
                   generatingStepIndex, v1Vars, v2Vars, internalLoading,
                   requests, calls, derivedCalls, epoch, pausedAt>>
PlanResolved ==
    /\ ~effectPending
    /\ appState = "ANALYZING"
    /\ \/ \E n \in 1..MaxSteps :
             /\ plan' = NewPlan(n)
             /\ appState' = "RESULT"
       \/ /\ appState' = "ERROR"
          /\ UNCHANGED plan
    /\ effectPending' = TRUE
    /\ UNCHANGED <<editVars, playerVars, materialVars, completedSubsteps,
                   batchBase,
                   version, inspirationImage, currentImage, stepVisuals,
                   generatingStepIndex, v1Vars, v2Vars, internalLoading,
                   requests, calls, derivedCalls, epoch, pausedAt>>

reset_keepsPlan ==
    /\ ~effectPending /\ ~ModalOpen
    /\ appState \in {"RESULT", "ERROR"}
    /\ epoch < MaxResets
    /\ appState' = "INPUT"
    /\ plan' = plan
    /\ inspirationImage' = Null
    /\ currentImage' = Null
    /\ stepVisuals' = EmptyMap
    /\ generatingStepIndex' = Null
    /\ IF version = "v1"
       THEN /\ videoUrl' = Null
            /\ isVideoLoading' = FALSE
            /\ variants' = EmptyMap
            /\ isVariantsLoading' = FALSE
            /\ UNCHANGED v2Vars
       ELSE /\ summaryAudioBuffer' = Null
            /\ nightVideoUrl' = Null
            /\ isNightVideoLoading' = FALSE
            /\ UNCHANGED <<isSummaryLoading, showSummaryPlayer, v1Vars>>
    /\ internalLoading' = [n \in 1..MaxSteps |-> FALSE]
    /\ epoch' = epoch + 1
    /\ pausedAt' = Null
    /\ completedSubsteps' = EmptyMap
    /\ materialImages' = EmptyMap
    /\ selectedMaterial' = Null
    /\ effectPending' = TRUE
    /\ UNCHANGED <<editVars, playerVars, version, requests, calls, derivedCalls,
                   generatingMaterialImage, materialCalls, batchBase>>
reset ==
    /\ ~effectPending /\ ~ModalOpen
    /\ appState \in {"RESULT", "ERROR"}
    /\ epoch < MaxResets
    /\ appState' = "INPUT"
    /\ plan' = Null
    /\ inspirationImage' = Null
    /\ currentImage' = Null
    /\ stepVisuals' = EmptyMap
    /\ generatingStepIndex' = Null
    /\ IF version = "v1"
       THEN /\ videoUrl' = Null
            /\ isVideoLoading' = FALSE
            /\ variants' = EmptyMap
            /\ isVariantsLoading' = FALSE
            /\ UNCHANGED v2Vars
       ELSE /\ summaryAudioBuffer' = Null
            /\ nightVideoUrl' = Null
            /\ isNightVideoLoading' = FALSE
            /\ UNCHANGED <<isSummaryLoading, showSummaryPlayer, v1Vars>>
    /\ internalLoading' = [n \in 1..MaxSteps |-> FALSE]
    /\ epoch' = epoch + 1
    /\ pausedAt' = Null
    /\ completedSubsteps' = EmptyMap
    /\ materialImages' = EmptyMap
    /\ selectedMaterial' = Null
    /\ effectPending' = TRUE
    /\ UNCHANGED <<editVars, playerVars, version, requests, calls, derivedCalls,
                   generatingMaterialImage, materialCalls, batchBase>>

\* ---- sequencing orchestrator ---------------------------------------------
\* generateVisualForStep up to its await: mark in flight, resolve the context
\* image, issue the Gateway call.
generateVisualForStep(step) ==
    LET n == step.stepNumber
        contextBase64 == IF n > 1 /\ Has(n - 1)
                         THEN stepVisuals[n - 1].id
                         ELSE IF currentImage = Null THEN NoCtx ELSE currentImage[1]
    IN /\ generatingStepIndex' = Some(n)
       /\ IssueCall("auto", n, contextBase64)

\* handleGenerateVariants up to Promise.all: one call per configuration
handleGenerateVariants ==
    /\ isVariantsLoading' = TRUE
    /\ batchBase' = Some(stepVisuals[plan[Len(plan)].stepNumber].id)
    /\ derivedCalls' = derivedCalls \cup
         {[kind |-> "variants", epoch |-> epoch,
           base |-> stepVisuals[plan[Len(plan)].stepNumber].id,
           results |-> [c \in VariantNames |-> "pending"]]}

\* The guards of the effect that make it return without doing anything
OrchestratorReturns_noInFlightGuard ==
    \/ appState # "RESULT" \/ plan = Null
    \/ version = "v1" /\ (isVideoLoading \/ videoUrl # Null)
OrchestratorReturns ==
    \/ appState # "RESULT" \/ plan = Null
    \/ generatingStepIndex # Null
    \/ version = "v1" /\ (isVideoLoading \/ videoUrl # Null)

\* The orchestrator useEffect, run after a commit that changed a dependency
OrchestratorEffect ==
    /\ effectPending
    /\ IF OrchestratorReturns
       THEN /\ effectPending' = FALSE
            /\ UNCHANGED <<generatingStepIndex, requests, calls, isVariantsLoading,
                           derivedCalls, batchBase>>
       ELSE IF MissingSteps # {}
       THEN /\ generateVisualForStep(nextStep)
            /\ effectPending' = TRUE
            /\ UNCHANGED <<isVariantsLoading, derivedCalls, batchBase>>
       ELSE IF /\ version = "v1"
               /\ isFinalStepVisualized
               /\ DOMAIN variants = {}
               /\ ~isVariantsLoading
       THEN /\ handleGenerateVariants
            /\ effectPending' = TRUE
            /\ UNCHANGED <<generatingStepIndex, requests, calls>>
       ELSE /\ effectPending' = FALSE
            /\ UNCHANGED <<generatingStepIndex, requests, calls, isVariantsLoading,
                           derivedCalls, batchBase>>
    /\ UNCHANGED <<editVars, playerVars, materialVars, completedSubsteps,
                   appVars, stepVisuals, videoUrl, isVideoLoading, variants,
                   v2Vars, internalLoading, epoch, pausedAt>>

\* generateStepImage of an automatic call resolves or rejects:
\* try { handleStepVisualGenerated } catch {} finally { setGeneratingStepIndex(null) }
AutoSettled(ok) ==
    /\ ~effectPending
    /\ \E r \in PendingOf("auto") :
         LET n == r.step IN
         /\ Settle(r)
         /\ IF ok THEN StepVisualGenerated(n, ImageOf(r))
                  ELSE NoStepVisualGenerated
         /\ generatingStepIndex' = Null
         /\ pausedAt' = IF r.epoch # epoch THEN pausedAt
                        ELSE IF ~ok THEN Some(n)
                        ELSE IF pausedAt = Some(n) THEN Null ELSE pausedAt
    /\ effectPending' = TRUE
    /\ UNCHANGED <<editVars, playerVars, materialVars, completedSubsteps,
                   batchBase,
                   appVars, isVideoLoading, isVariantsLoading,
                   isSummaryLoading, showSummaryPlayer, isNightVideoLoading,
                   internalLoading, derivedCalls, epoch>>

AutoResolved == \E ok \in BOOLEAN : AutoSettled(ok)

\* ---- StepVisualizer ------------------------------------------------------
\* props passed by App to the StepVisualizer of step n
base64Context(n) ==
    IF n = 1
    THEN (IF currentImage = Null THEN NoCtx ELSE currentImage[1])
    ELSE (IF Has(n - 1) THEN stepVisuals[n - 1].id ELSE NoCtx)
isLocked(n) == n > 1 /\ ~Has(n - 1)
isGenerating(n) == generatingStepIndex = Some(n)
isLoading(n) == isGenerating(n) \/ internalLoading[n]

\* which of the two buttons bound to handleGenerate can be clicked
CanClickGenerate(n) ==
    IF Has(n) THEN ~isLoading(n)                  \* Regenerate
    ELSE ~isLoading(n) /\ ~isLocked(n)            \* Manually Visualize

\* StepVisualizer.handleGenerate up to its await
handleGenerate ==
    /\ ~effectPending /\ ~ModalOpen
    /\ appState = "RESULT" /\ plan # Null
    /\ \E s \in DOMAIN plan :
         LET n == plan[s].stepNumber IN
         /\ CanClickGenerate(n)
         /\ internalLoading' = [internalLoading EXCEPT ![n] = TRUE]
         /\ IssueCall("manual", n, base64Context(n))
    /\ UNCHANGED <<editVars, playerVars, materialVars, completedSubsteps,
                   batchBase,
                   appVars, stepVisuals, generatingStepIndex, v1Vars, v2Vars,
                   derivedCalls, epoch, effectPending, pausedAt>>

\* generateStepImage of a manual call resolves or rejects:
\* try { onGenerate(url) } catch { setError } finally { setInternalLoading(false) }
ManualResolved ==
    /\ ~effectPending
    /\ \E r \in PendingOf("manual"), ok \in BOOLEAN :
         LET n == r.step IN
         /\ Settle(r)
         /\ IF ok THEN StepVisualGenerated(n, ImageOf(r)) /\ effectPending' = TRUE
                  ELSE NoStepVisualGenerated /\ UNCHANGED effectPending
         /\ internalLoading' = IF r.epoch = epoch
                               THEN [internalLoading EXCEPT ![n] = FALSE]
                               ELSE internalLoading
         /\ pausedAt' = IF ok /\ pausedAt = Some(n) THEN Null ELSE pausedAt
    /\ UNCHANGED <<editVars, playerVars, materialVars, completedSubsteps,
                   batchBase,
                   appVars, generatingStepIndex, isVideoLoading,
                   isVariantsLoading, isSummaryLoading, showSummaryPlayer,
                   isNightVideoLoading, derivedCalls, epoch>>

\* ---- derived media: variants (v1) ----------------------------------------
\* One generateVariantImage call of a batch settles.  When it is the last one,
\* Promise.all resolves: setVariants(newVariants), setIsVariantsLoading(false).
\* results.forEach(res => { if (res) newVariants[res.name] = res.url })
newVariants_allNames(results, base) == [x \in VariantNames |-> base]
newVariants(results, base) ==
    [x \in {y \in VariantNames : results[y] = "ok"} |-> base]

\* await Promise.all(promises): every call of the batch has settled
PromiseAll_any(results) == TRUE
PromiseAll(results) == \A x \in VariantNames : results[x] # "pending"

VariantResolved ==
    /\ ~effectPending
    /\ \E b \in derivedCalls, c \in VariantNames, ok \in BOOLEAN :
         /\ b.kind = "variants"
         /\ b.results[c] = "pending"
         /\ LET results == [b.results EXCEPT ![c] = IF ok THEN "ok" ELSE "failed"]
            IN IF ~PromiseAll(results)
               THEN /\ derivedCalls' = (derivedCalls \ {b})
                                          \cup {[b EXCEPT !.results = results]}
                    /\ UNCHANGED <<variants, isVariantsLoading, effectPending>>
               ELSE /\ derivedCalls' = derivedCalls \ {b}
                    /\ variants' = newVariants(results, b.base)
                    /\ isVariantsLoading' = FALSE
                    /\ effectPending' = TRUE
    /\ UNCHANGED <<editVars, playerVars, materialVars, completedSubsteps,
                   batchBase,
                   appVars, stepVisuals, generatingStepIndex, videoUrl,
                   isVideoLoading, v2Vars, internalLoading, requests, calls, epoch,
                   pausedAt>>

\* ---- derived media: room-tour video (v1) ---------------------------------
\* handleGenerateVideo up to the await of generateRoomTourVideo; the platform
\* key check before it only logs when it fails.  No control of this
\* revision's JSX is bound to the handler; it is taken as an on-demand
\* operation of the result screen.
handleGenerateVideo ==
    /\ ~effectPending /\ ~ModalOpen
    /\ version = "v1"
    /\ appState = "RESULT"
    /\ plan # Null /\ ~isVideoLoading /\ videoUrl = Null
    /\ Has(plan[Len(plan)].stepNumber)
    /\ isVideoLoading' = TRUE
    /\ derivedCalls' = derivedCalls \cup
         {[kind |-> "video", epoch |-> epoch,
           base |-> stepVisuals[plan[Len(plan)].stepNumber].id]}
    /\ effectPending' = TRUE
    /\ UNCHANGED <<editVars, playerVars, materialVars, completedSubsteps,
                   batchBase,
                   appVars, stepVisuals, generatingStepIndex, videoUrl,
                   variants, isVariantsLoading, v2Vars, internalLoading,
                   requests, calls, epoch, pausedAt>>

VideoResolved ==
    /\ ~effectPending
    /\ \E b \in derivedCalls, ok \in BOOLEAN :
         /\ b.kind = "video"
         /\ derivedCalls' = derivedCalls \ {b}
         /\ videoUrl' = IF ok THEN Some(b.base) ELSE videoUrl
    /\ isVideoLoading' = FALSE
    /\ effectPending' = TRUE
    /\ UNCHANGED <<editVars, playerVars, materialVars, completedSubsteps,
                   batchBase,
                   appVars, stepVisuals, generatingStepIndex, variants,
                   isVariantsLoading, v2Vars, internalLoading, requests, calls,
                   epoch, pausedAt>>

\* ---- derived media: night tour and summary audio (v2) --------------------
handleGenerateNightTour ==
    /\ ~effectPending /\ ~ModalOpen
    /\ version = "v2"
    /\ appState = "RESULT"
    /\ plan # Null /\ ~isNightVideoLoading /\ nightVideoUrl = Null
    /\ Has(plan[Len(plan)].stepNumber)
    /\ isNightVideoLoading' = TRUE
    /\ derivedCalls' = derivedCalls \cup
         {[kind |-> "night", epoch |-> epoch,
           base |-> stepVisuals[plan[Len(plan)].stepNumber].id]}
    /\ UNCHANGED <<editVars, playerVars, materialVars, completedSubsteps,
                   batchBase,
                   appVars, stepVisuals, generatingStepIndex, v1Vars,
                   summaryAudioBuffer, isSummaryLoading, showSummaryPlayer,
                   nightVideoUrl, internalLoading, requests, calls, epoch,
                   effectPending, pausedAt>>

NightTourResolved_noFinally ==
    /\ ~effectPending
    /\ \E b \in derivedCalls, ok \in BOOLEAN :
         /\ b.kind = "night"
         /\ derivedCalls' = derivedCalls \ {b}
         /\ nightVideoUrl' = IF ok THEN Some(b.base) ELSE nightVideoUrl
         /\ isNightVideoLoading' = IF ok THEN FALSE ELSE isNightVideoLoading
    /\ UNCHANGED <<editVars, playerVars, materialVars, completedSubsteps,
                   batchBase, appVars, stepVisuals, generatingStepIndex, v1Vars,
                   summaryAudioBuffer, isSummaryLoading, showSummaryPlayer,
                   internalLoading, requests, calls, epoch, effectPending, pausedAt>>
NightTourResolved ==
    /\ ~effectPending
    /\ \E b \in derivedCalls, ok \in BOOLEAN :
         /\ b.kind = "night"
         /\ derivedCalls' = derivedCalls \ {b}
         /\ nightVideoUrl' = IF ok THEN Some(b.base) ELSE nightVideoUrl
    /\ isNightVideoLoading' = FALSE
    /\ UNCHANGED <<editVars, playerVars, materialVars, completedSubsteps,
                   batchBase,
                   appVars, stepVisuals, generatingStepIndex, v1Vars,
                   summaryAudioBuffer, isSummaryLoading, showSummaryPlayer,
                   internalLoading, requests, calls, epoch, effectPending, pausedAt>>

\* the Play Summary button sits in the section rendered once the final step
\* is visualized and is disabled while isSummaryLoading
handleGenerateSummary ==
    /\ ~effectPending /\ ~ModalOpen
    /\ version = "v2"
    /\ appState = "RESULT"
    /\ plan # Null
    /\ isFinalStepVisualized /\ ~isSummaryLoading
    /\ isSummaryLoading' = TRUE
    /\ derivedCalls' = derivedCalls \cup {[kind |-> "audio", epoch |-> epoch]}
    /\ UNCHANGED <<editVars, playerVars, materialVars, completedSubsteps,
                   batchBase,
                   appVars, stepVisuals, generatingStepIndex, v1Vars,
                   summaryAudioBuffer, showSummaryPlayer, nightVideoUrl,
                   isNightVideoLoading, internalLoading, requests, calls, epoch,
                   effectPending, pausedAt>>

SummaryResolved ==
    /\ ~effectPending
    /\ \E b \in derivedCalls, ok \in BOOLEAN :
         /\ b.kind = "audio"
         /\ derivedCalls' = derivedCalls \ {b}
         /\ IF ok THEN /\ summaryAudioBuffer' = Some("audio")
                       /\ showSummaryPlayer' = TRUE
                  ELSE UNCHANGED <<summaryAudioBuffer, showSummaryPlayer>>
    /\ isSummaryLoading' = FALSE
    /\ UNCHANGED <<editVars, playerVars, materialVars, completedSubsteps,
                   batchBase,
                   appVars, stepVisuals, generatingStepIndex, v1Vars,
                   nightVideoUrl, isNightVideoLoading, internalLoading,
                   requests, calls, epoch, effectPending, pausedAt>>

\* ---- material modal ------------------------------------------------------
RECURSIVE SumCalls(_, _)
SumCalls(f, S) ==
    IF S = {} THEN 0
    ELSE LET m == CHOOSE x \in S : TRUE IN f[m] + SumCalls(f, S \ {m})
OutstandingMaterialCalls == SumCalls(materialCalls, MaterialNames)

\* materialImages[item.name]: the cache is keyed by the material's name only
Cached_never(item) == FALSE
Cached(item) == item \in DOMAIN materialImages

\* handleMaterialClick up to its await: open the modal, serve a cached image,
\* otherwise issue generateProductImage
handleMaterialClick(item) ==
    /\ ~effectPending /\ ~ModalOpen
    /\ appState = "RESULT" /\ plan # Null
    /\ selectedMaterial' = Some(item)
    /\ IF Cached(item)
       THEN UNCHANGED <<generatingMaterialImage, materialCalls>>
       ELSE /\ OutstandingMaterialCalls < MaxMaterialCalls
            /\ generatingMaterialImage' = TRUE
            /\ materialCalls' = [materialCalls EXCEPT ![item] = @ + 1]
    /\ UNCHANGED <<editVars, playerVars, materialImages, completedSubsteps,
                   batchBase, appVars,
                   stepVisuals, generatingStepIndex, v1Vars, v2Vars,
                   internalLoading, requests, calls, derivedCalls, epoch,
                   effectPending, pausedAt>>

closeMaterialModal ==
    /\ ~effectPending
    /\ appState = "RESULT"
    /\ selectedMaterial # Null
    /\ selectedMaterial' = Null
    /\ UNCHANGED <<editVars, playerVars, materialImages,
                   generatingMaterialImage, materialCalls,
                   completedSubsteps, batchBase, appVars, stepVisuals,
                   generatingStepIndex, v1Vars, v2Vars, internalLoading,
                   requests, calls, derivedCalls, epoch, effectPending, pausedAt>>

\* generateProductImage resolves or rejects:
\* try { setMaterialImages(prev => ({...prev, [item.name]: url})) }
\* catch {} finally { setGeneratingMaterialImage(false) }
MaterialResolved_noFinally ==
    /\ ~effectPending
    /\ \E item \in MaterialNames, ok \in BOOLEAN :
         /\ materialCalls[item] > 0
         /\ materialCalls' = [materialCalls EXCEPT ![item] = @ - 1]
         /\ materialImages' =
              IF ok THEN [x \in DOMAIN materialImages \cup {item} |-> "url"]
                    ELSE materialImages
         /\ generatingMaterialImage' = IF ok THEN FALSE ELSE generatingMaterialImage
    /\ UNCHANGED <<editVars, playerVars, selectedMaterial, completedSubsteps,
                   batchBase, appVars,
                   stepVisuals, generatingStepIndex, v1Vars, v2Vars,
                   internalLoading, requests, calls, derivedCalls, epoch,
                   effectPending, pausedAt>>
MaterialResolved ==
    /\ ~effectPending
    /\ \E item \in MaterialNames, ok \in BOOLEAN :
         /\ materialCalls[item] > 0
         /\ materialCalls' = [materialCalls EXCEPT ![item] = @ - 1]
         /\ materialImages' =
              IF ok THEN [x \in DOMAIN materialImages \cup {item} |-> "url"]
                    ELSE materialImages
    /\ generatingMaterialImage' = FALSE
    /\ UNCHANGED <<editVars, playerVars, selectedMaterial, completedSubsteps,
                   batchBase, appVars,
                   stepVisuals, generatingStepIndex, v1Vars, v2Vars,
                   internalLoading, requests, calls, derivedCalls, epoch,
                   effectPending, pausedAt>>

\* ---- checklist and substep editing --------------------------------------
\* `${stepIndex}-${subIdx}`: both are array indices, counted from 0
SubstepKey(stepIndex, subIdx) == ToString(stepIndex) \o "-" \o ToString(subIdx)

\* prev[key] of a Record<string, boolean>: a missing key reads undefined
Flag(prev, key) == IF key \in DOMAIN prev THEN prev[key] ELSE "undefined"
WithFlag(prev, key, val) ==
    [k \in DOMAIN prev \cup {key} |-> IF k = key THEN val ELSE prev[k]]
\* !!completedSubsteps[key], what the checkbox shows
Checked(prev, key) == Flag(prev, key) = "true"

\* plan.steps[sIdx].substeps
SubstepsOf(p, sIdx) == p[sIdx + 1].substeps
WithSubsteps(p, sIdx, subs) == [p EXCEPT ![sIdx + 1].substeps = subs]

\* const isEditing = editingSubstep?.sIdx === idx && editingSubstep?.subIdx === sIdx:
\* the row being edited shows the text input with Save and Cancel, every
\* other row shows its checkbox and the Edit, Move and Delete buttons
isEditing(sIdx, subIdx) ==
    editingSubstep = Some([sIdx |-> sIdx, subIdx |-> subIdx])

toggleSubstep(stepIndex, subIdx) ==
    /\ ~effectPending /\ ~ModalOpen
    /\ appState = "RESULT" /\ plan # Null
    /\ stepIndex + 1 \in DOMAIN plan
    /\ subIdx + 1 \in DOMAIN SubstepsOf(plan, stepIndex)
    /\ ~isEditing(stepIndex, subIdx)
    /\ LET key == SubstepKey(stepIndex, subIdx)
       IN completedSubsteps' =
            WithFlag(completedSubsteps, key,
                     IF Checked(completedSubsteps, key) THEN "false" ELSE "true")
    /\ UNCHANGED <<editVars, playerVars, materialVars, batchBase, appVars,
                   stepVisuals,
                   generatingStepIndex, v1Vars, v2Vars, internalLoading,
                   requests, calls, derivedCalls, epoch, effectPending, pausedAt>>

\* the setCompletedSubsteps updater of moveSubstep
swapFlags_stay(prev, currentKey, newKey) == prev
swapFlags(prev, currentKey, newKey) ==
    LET val1 == Flag(prev, currentKey)
        val2 == Flag(prev, newKey)
    IN WithFlag(WithFlag(prev, currentKey, val2), newKey, val1)

\* moveSubstep as a function of the state it reads: the plan and the
\* completion map it leaves behind
moveSubstep_noBoundaryGuard(p, completed, sIdx, subIdx, direction) ==
    LET newIndex == subIdx + direction
    IN [plan |-> p,
        completedSubsteps |->
            swapFlags(completed, SubstepKey(sIdx, subIdx),
                      SubstepKey(sIdx, newIndex))]
moveSubstepResult(p, completed, sIdx, subIdx, direction) ==
    LET substeps == SubstepsOf(p, sIdx)
        newIndex == subIdx + direction
    IN IF newIndex < 0 \/ newIndex >= Len(substeps)
       THEN [plan |-> p, completedSubsteps |-> completed]
       ELSE [plan |-> WithSubsteps(p, sIdx,
                        [substeps EXCEPT ![subIdx + 1] = substeps[newIndex + 1],
                                         ![newIndex + 1] = substeps[subIdx + 1]]),
             completedSubsteps |->
                 swapFlags(completed, SubstepKey(sIdx, subIdx),
                           SubstepKey(sIdx, newIndex))]

\* The values moveSubstep can be called with in the current state; the Move
\* Up / Move Down buttons of a substep at the edge of its list are rendered
\* disabled, the function itself accepts the call.
MoveInputs ==
    IF plan = Null THEN {}
    ELSE {in \in [sIdx : {i - 1 : i \in DOMAIN plan},
                   subIdx : 0..(MaxSubsteps - 1), direction : {-1, 1}] :
             in.subIdx + 1 \in DOMAIN SubstepsOf(plan, in.sIdx)}
AtBoundary(in) ==
    LET newIndex == in.subIdx + in.direction
    IN newIndex < 0 \/ newIndex >= Len(SubstepsOf(plan, in.sIdx))

\* moveSubstep: a call at the boundary returns before any setter; otherwise
\* setPlan(newPlan) gives the orchestrator effect a new plan object.
moveSubstep(sIdx, subIdx, direction) ==
    /\ ~effectPending /\ ~ModalOpen
    /\ appState = "RESULT" /\ plan # Null
    /\ [sIdx |-> sIdx, subIdx |-> subIdx, direction |-> direction] \in MoveInputs
    /\ ~isEditing(sIdx, subIdx)
    /\ LET res == moveSubstepResult(plan, completedSubsteps, sIdx, subIdx, direction)
           newIndex == subIdx + direction
       IN /\ plan' = res.plan
          /\ completedSubsteps' = res.completedSubsteps
          /\ effectPending' =
                IF newIndex < 0 \/ newIndex >= Len(SubstepsOf(plan, sIdx))
                THEN effectPending ELSE TRUE
    /\ UNCHANGED <<editVars, playerVars, materialVars, batchBase, version,
                   appState, inspirationImage, currentImage, stepVisuals,
                   generatingStepIndex, v1Vars, v2Vars,
                   internalLoading, requests, calls, derivedCalls, epoch, pausedAt>>

\* ---- editing the substeps of the plan -----------------------------------
NewStepText == "New step"
\* what the user can type into the edit input
TypedTexts == {"edited"}

RemoveAt(seq, i) == SubSeq(seq, 1, i - 1) \o SubSeq(seq, i + 1, Len(seq))

\* a substep row (sIdx, subIdx) is rendered
RowShown(sIdx, subIdx) ==
    /\ appState = "RESULT" /\ plan # Null
    /\ sIdx + 1 \in DOMAIN plan
    /\ subIdx + 1 \in DOMAIN SubstepsOf(plan, sIdx)
\* the row that shows the edit input: which substep editingSubstep names
EditRowShown ==
    /\ editingSubstep # Null
    /\ RowShown(editingSubstep[1].sIdx, editingSubstep[1].subIdx)

\* everything the substep editing handlers never write
notEdited ==
    <<playerVars, materialVars, batchBase, version, appState, inspirationImage,
      currentImage, stepVisuals, generatingStepIndex, v1Vars, v2Vars,
      internalLoading, requests, calls, derivedCalls, epoch, pausedAt>>

\* Edit button of a row: setEditingSubstep({sIdx, subIdx}); setEditValue(text)
startEditingSubstep(sIdx, subIdx) ==
    /\ ~effectPending /\ ~ModalOpen
    /\ RowShown(sIdx, subIdx)
    /\ ~isEditing(sIdx, subIdx)
    /\ editingSubstep' = Some([sIdx |-> sIdx, subIdx |-> subIdx])
    /\ editValue' = SubstepsOf(plan, sIdx)[subIdx + 1]
    /\ UNCHANGED <<plan, completedSubsteps, effectPending, notEdited>>

\* onChange of the edit input: setEditValue(e.target.value)
setEditValue(text) ==
    /\ ~effectPending /\ ~ModalOpen
    /\ EditRowShown
    /\ editValue # text
    /\ editValue' = text
    /\ UNCHANGED <<editingSubstep, plan, completedSubsteps, effectPending,
                   notEdited>>

\* Save button or Enter in the edit input:
\* newPlan.steps[sIdx].substeps[subIdx] = editValue; setPlan(newPlan);
\* setEditingSubstep(null)
saveSubstep_dropsVisual ==
    /\ ~effectPending /\ ~ModalOpen
    /\ EditRowShown
    /\ LET sIdx == editingSubstep[1].sIdx
           subIdx == editingSubstep[1].subIdx
       IN /\ plan' = WithSubsteps(plan, sIdx,
                        [SubstepsOf(plan, sIdx) EXCEPT ![subIdx + 1] = editValue])
          /\ stepVisuals' = [k \in DOMAIN stepVisuals \ {plan[sIdx + 1].stepNumber}
                               |-> stepVisuals[k]]
    /\ editingSubstep' = Null
    /\ effectPending' = TRUE
    /\ UNCHANGED <<editValue, completedSubsteps, playerVars, materialVars,
                   batchBase, version, appState, inspirationImage, currentImage,
                   generatingStepIndex, v1Vars, v2Vars, internalLoading,
                   requests, calls, derivedCalls, epoch, pausedAt>>
saveSubstep ==
    /\ ~effectPending /\ ~ModalOpen
    /\ EditRowShown
    /\ LET sIdx == editingSubstep[1].sIdx
           subIdx == editingSubstep[1].subIdx
       IN plan' = WithSubsteps(plan, sIdx,
                     [SubstepsOf(plan, sIdx) EXCEPT ![subIdx + 1] = editValue])
    /\ editingSubstep' = Null
    /\ effectPending' = TRUE
    /\ UNCHANGED <<editValue, completedSubsteps, notEdited>>

\* Cancel button or Escape in the edit input: setEditingSubstep(null)
cancelEditing ==
    /\ ~effectPending /\ ~ModalOpen
    /\ EditRowShown
    /\ editingSubstep' = Null
    /\ UNCHANGED <<editValue, plan, completedSubsteps, effectPending, notEdited>>

\* Delete button of a row: substeps.splice(subIdx, 1); setPlan(newPlan).
\* Neither completedSubsteps nor editingSubstep is written.
deleteSubstep(sIdx, subIdx) ==
    /\ ~effectPending /\ ~ModalOpen
    /\ RowShown(sIdx, subIdx)
    /\ ~isEditing(sIdx, subIdx)
    /\ plan' = WithSubsteps(plan, sIdx,
                             RemoveAt(SubstepsOf(plan, sIdx), subIdx + 1))
    /\ effectPending' = TRUE
    /\ UNCHANGED <<editVars, completedSubsteps, notEdited>>

\* Add Step button of a step: substeps.push("New step"); setPlan(newPlan);
\* setEditingSubstep({sIdx, subIdx: length - 1}); setEditValue("New step")
addSubstep(sIdx) ==
    /\ ~effectPending /\ ~ModalOpen
    /\ appState = "RESULT" /\ plan # Null
    /\ sIdx + 1 \in DOMAIN plan
    /\ Len(SubstepsOf(plan, sIdx)) < MaxEditLen
    /\ plan' = WithSubsteps(plan, sIdx,
                             Append(SubstepsOf(plan, sIdx), NewStepText))
    /\ editingSubstep' =
          Some([sIdx |-> sIdx, subIdx |-> Len(SubstepsOf(plan, sIdx))])
    /\ editValue' = NewStepText
    /\ effectPending' = TRUE
    /\ UNCHANGED <<completedSubsteps, notEdited>>

\* SummaryPlayer onClose: setShowSummaryPlayer(false)
closeSummaryPlayer ==
    /\ ~effectPending
    /\ appState = "RESULT"
    /\ showSummaryPlayer
    /\ showSummaryPlayer' = FALSE
    /\ UNCHANGED <<editVars, playerVars, materialVars, completedSubsteps,
                   batchBase, appVars, stepVisuals,
                   generatingStepIndex, v1Vars, summaryAudioBuffer,
                   isSummaryLoading, nightVideoUrl, isNightVideoLoading,
                   internalLoading, requests, calls, derivedCalls, epoch,
                   effectPending, pausedAt>>

\* ---- SummaryPlayer --------------------------------------------------------
\* everything outside the component
notPlayer ==
    <<appVars, stepVisuals, generatingStepIndex, v1Vars, v2Vars, internalLoading,
      requests, calls, derivedCalls, epoch, effectPending, pausedAt,
      materialVars, completedSubsteps, batchBase, editVars>>

\* props: isOpen={showSummaryPlayer} audioBuffer={summaryAudioBuffer}
\* images={Object.values(stepVisuals)}
PlayerProps == <<showSummaryPlayer, summaryAudioBuffer>>
ImagesLength == Cardinality(DOMAIN stepVisuals)

\* useEffect(..., [isOpen, audioBuffer]) is due after a commit that mounted
\* the component or changed one of the two props
PlayerEffectDue == appState = "RESULT" /\ playerDeps # Some(PlayerProps)

\* stopPlayback: stop the source the ref holds, cancel the frame the ref
\* holds, setIsPlaying(false), setCurrentImageIndex(0)
stopPlayback ==
    /\ playbacks' =
          [p \in DOMAIN playbacks |->
              [playbacks[p] EXCEPT
                  !.source = IF sourceNodeRef = Some(p) /\ @ = "playing"
                             THEN "stopped" ELSE @,
                  !.frame = IF rafRef = Some(p) THEN FALSE ELSE @]]
    /\ sourceNodeRef' = Null
    /\ rafRef' = Null
    /\ isPlaying' = FALSE
    /\ currentImageIndex' = 0

\* The effect: the cleanup of the previous run (stopPlayback), then
\* initAudio() when open with a buffer, stopPlayback() otherwise.  initAudio
\* runs up to its first await; the images it will animate are those of the
\* render the effect belongs to.
SummaryPlayerEffect ==
    /\ PlayerEffectDue
    /\ playerDeps' = Some(PlayerProps)
    /\ stopPlayback
    /\ IF showSummaryPlayer /\ summaryAudioBuffer # Null
       THEN /\ Len(audioInits) + Len(playbacks) < MaxPlaybacks
            /\ audioInits' = Append(audioInits, ImagesLength)
       ELSE UNCHANGED audioInits
    /\ UNCHANGED <<startTimeRef, durationRef, currentTime, notPlayer>>

\* the index animate shows at a frame: progress = elapsed / duration,
\* Math.min(Math.floor(progress * images.length), images.length - 1)
Floor(num, den) == num \div den
MathMin(a, b) == IF a < b THEN a ELSE b
displayedIndex_rounds(elapsed, duration, length) ==
    MathMin(Floor(2 * elapsed * length + duration, 2 * duration), length - 1)
displayedIndex(elapsed, duration, length) ==
    MathMin(Floor(elapsed * length, duration), length - 1)

\* initAudio after its awaits (context resume, decodeAudioData): a decoded
\* buffer of some duration, then startPlayback; or an exception, logged.
\* startPlayback: a new source is started and stored in sourceNodeRef,
\* startTimeRef = currentTime, setIsPlaying(true), the first frame of the
\* animation loop is requested.
InitAudioResolved ==
    /\ ~PlayerEffectDue
    /\ \E i \in DOMAIN audioInits :
         /\ audioInits' = RemoveAt(audioInits, i)
         /\ \/ \E duration \in 1..MaxDuration :
                 /\ durationRef' = duration
                 /\ playbacks' = Append(playbacks,
                       [images |-> audioInits[i], start |-> currentTime,
                        duration |-> duration, source |-> "playing",
                        frame |-> TRUE])
                 /\ sourceNodeRef' = Some(Len(playbacks) + 1)
                 /\ rafRef' = Some(Len(playbacks) + 1)
                 /\ startTimeRef' = currentTime
                 /\ isPlaying' = TRUE
                 /\ UNCHANGED currentImageIndex
            \/ UNCHANGED <<durationRef, playbacks, sourceNodeRef, rafRef,
                           startTimeRef, isPlaying, currentImageIndex>>
    /\ UNCHANGED <<playerDeps, currentTime, notPlayer>>

\* the audio clock advances while a source is sounding or a loop waits for
\* the end of the audio
Tick ==
    /\ ~PlayerEffectDue
    /\ \E p \in DOMAIN playbacks :
          \/ /\ playbacks[p].source = "playing"
             /\ currentTime < playbacks[p].start + playbacks[p].duration
          \/ /\ playbacks[p].frame
             /\ currentTime < startTimeRef + durationRef
    /\ currentTime' = currentTime + 1
    /\ UNCHANGED <<currentImageIndex, isPlaying, playerDeps, audioInits,
                   playbacks, sourceNodeRef, rafRef, startTimeRef, durationRef,
                   notPlayer>>

\* one frame of the animation loop of playback p
animate(p) ==
    /\ ~PlayerEffectDue
    /\ p \in DOMAIN playbacks
    /\ playbacks[p].frame
    /\ LET elapsed == currentTime - startTimeRef
       IN IF elapsed < durationRef
          THEN /\ currentImageIndex' =
                     displayedIndex(elapsed, durationRef, playbacks[p].images)
               /\ rafRef' = Some(p)
               /\ UNCHANGED playbacks
          ELSE /\ currentImageIndex' = playbacks[p].images - 1
               /\ playbacks' = [playbacks EXCEPT ![p].frame = FALSE]
               /\ UNCHANGED rafRef
    /\ UNCHANGED <<isPlaying, playerDeps, audioInits, sourceNodeRef,
                   startTimeRef, durationRef, currentTime, notPlayer>>

\* source.onended, fired when the source has played to its end or was
\* stopped: setIsPlaying(false)
onended(p) ==
    /\ ~PlayerEffectDue
    /\ p \in DOMAIN playbacks
    /\ \/ playbacks[p].source = "stopped"
       \/ /\ playbacks[p].source = "playing"
          /\ currentTime >= playbacks[p].start + playbacks[p].duration
    /\ playbacks' = [playbacks EXCEPT ![p].source = "ended"]
    /\ isPlaying' = FALSE
    /\ UNCHANGED <<currentImageIndex, playerDeps, audioInits, sourceNodeRef,
                   rafRef, startTimeRef, durationRef, currentTime, notPlayer>>

\* ---- specification -------------------------------------------------------
Next ==
    \/ handleFileSelect
    \/ handleSubmit
    \/ PlanResolved
    \/ OrchestratorEffect
    \/ AutoResolved
    \/ handleGenerate
    \/ ManualResolved
    \/ VariantResolved
    \/ handleGenerateVideo
    \/ VideoResolved
    \/ handleGenerateNightTour
    \/ NightTourResolved
    \/ handleGenerateSummary
    \/ SummaryResolved
    \/ closeSummaryPlayer

\* One planning session: everything a user and the Gateway can do between a
\* submission and the next reset.
Spec == Init /\ [][Next]_vars

\* ---- automatic sequencing alone ------------------------------------------
\* The state right after generateDIYPlan resolved with a plan of n steps.
InitAuto ==
    /\ version \in {"v1", "v2"}
    /\ appState = "RESULT"
    /\ inspirationImage = Some("inspiration")
    /\ currentImage = Some(OrigImage)
    /\ \E n \in 1..MaxSteps : plan = NewPlan(n)
    /\ stepVisuals = EmptyMap
    /\ generatingStepIndex = Null
    /\ videoUrl = Null
    /\ isVideoLoading = FALSE
    /\ variants = EmptyMap
    /\ isVariantsLoading = FALSE
    /\ summaryAudioBuffer = Null
    /\ isSummaryLoading = FALSE
    /\ showSummaryPlayer = FALSE
    /\ nightVideoUrl = Null
    /\ isNightVideoLoading = FALSE
    /\ internalLoading = [n \in 1..MaxSteps |-> FALSE]
    /\ requests = {}
    /\ calls = 0
    /\ derivedCalls = {}
    /\ epoch = 0
    /\ effectPending = TRUE
    /\ pausedAt = Null
    /\ materialImages = EmptyMap
    /\ selectedMaterial = Null
    /\ generatingMaterialImage = FALSE
    /\ materialCalls = [m \in MaterialNames |-> 0]
    /\ completedSubsteps = EmptyMap
    /\ batchBase = Null
    /\ EditInit
    /\ PlayerInit

\* No user action, every step-image call succeeds; variant calls may fail.
NextAuto ==
    \/ OrchestratorEffect
    \/ AutoSettled(TRUE)
    \/ VariantResolved

\* React runs a due effect; a Gateway call that succeeds does resolve.
SpecAuto ==
    /\ InitAuto /\ [][NextAuto]_vars
    /\ WF_vars(OrchestratorEffect)
    /\ WF_vars(AutoSettled(TRUE))

\* ---- sessions across resets ----------------------------------------------
\* The application followed across resets: the orchestrator, the derived
\* media and reset itself, with the step-image calls of the whole behaviour
\* capped at MaxSessionCalls.
SessionOrchestratorEffect == OrchestratorEffect /\ calls' <= MaxSessionCalls

NextSessions ==
    \/ handleFileSelect
    \/ handleSubmit
    \/ PlanResolved
    \/ reset
    \/ SessionOrchestratorEffect
    \/ AutoResolved
    \/ VariantResolved
    \/ handleGenerateVideo
    \/ VideoResolved
    \/ handleGenerateNightTour
    \/ NightTourResolved
    \/ handleGenerateSummary
    \/ SummaryResolved
    \/ closeSummaryPlayer

SpecSessions == Init /\ [][NextSessions]_vars

\* Sessions across resets with the variant batches alone among the derived
\* media: the tour and summary handlers write neither variants nor a batch
\* record, and every one of them multiplies the states of a batch in flight.
NextVariantSessions ==
    \/ handleFileSelect
    \/ handleSubmit
    \/ PlanResolved
    \/ reset
    \/ SessionOrchestratorEffect
    \/ AutoResolved
    \/ VariantResolved

SpecVariantSessions == Init /\ [][NextVariantSessions]_vars

\* ---- a session that fills every store entry, then reset or resubmission -----
\* One automatic step-image call in all: a plan of one step gets its image
\* and, from it, the derived artifacts; the user ticks a substep and looks up
\* a material.
StoreOrchestratorEffect == OrchestratorEffect /\ calls' <= 1

NextStore ==
    \/ handleFileSelect
    \/ handleSubmit
    \/ PlanResolved
    \/ reset
    \/ StoreOrchestratorEffect
    \/ AutoSettled(TRUE)
    \/ VariantResolved
    \/ handleGenerateVideo
    \/ VideoResolved
    \/ handleGenerateNightTour
    \/ NightTourResolved
    \/ handleGenerateSummary
    \/ SummaryResolved
    \/ closeSummaryPlayer
    \/ toggleSubstep(0, 0)
    \/ handleMaterialClick("paint")
    \/ closeMaterialModal
    \/ MaterialResolved

SpecStore == Init /\ [][NextStore]_vars

\* ---- the material modal alone --------------------------------------------
\* The result screen of a one-step plan: the orchestrator starts step 1, whose
\* call stays outstanding; the user opens and closes material modals, product
\* images resolve in any order, and the plan is edited in between.
InitMaterials == InitAuto /\ plan = NewPlan(1)

NextMaterials ==
    \/ OrchestratorEffect
    \/ \E item \in MaterialNames : handleMaterialClick(item)
    \/ closeMaterialModal
    \/ MaterialResolved
    \/ \E in \in MoveInputs : moveSubstep(in.sIdx, in.subIdx, in.direction)

SpecMaterials == InitMaterials /\ [][NextMaterials]_vars

\* ---- every kind of Gateway call on the result screen of a one-step plan ----
\* Step-image calls (which may fail and are then re-issued), the variant
\* batch, the videos, the summary audio and the product images settle in any
\* order, each with either outcome.
NextMedia ==
    \/ OrchestratorEffect
    \/ AutoResolved
    \/ VariantResolved
    \/ handleGenerateVideo
    \/ VideoResolved
    \/ handleGenerateNightTour
    \/ NightTourResolved
    \/ handleGenerateSummary
    \/ SummaryResolved
    \/ closeSummaryPlayer
    \/ \E item \in MaterialNames : handleMaterialClick(item)
    \/ closeMaterialModal
    \/ MaterialResolved

SpecMedia == InitMaterials /\ [][NextMedia]_vars

\* ---- the summary slideshow (second revision) -------------------------------
\* The result screen with every step visualized by the automatic chain.  The
\* user may regenerate one step, requests the summary audio, the player opens
\* and plays; the regenerated image may arrive while it plays.
InitPlayer ==
    /\ version = "v2"
    /\ appState = "RESULT"
    /\ inspirationImage = Some("inspiration")
    /\ currentImage = Some(OrigImage)
    /\ \E n \in 1..MaxSteps :
          /\ plan = NewPlan(n)
          /\ stepVisuals = [k \in 1..n |-> [id |-> k, ctx |-> k - 1]]
          /\ calls = n
    /\ generatingStepIndex = Null
    /\ videoUrl = Null
    /\ isVideoLoading = FALSE
    /\ variants = EmptyMap
    /\ isVariantsLoading = FALSE
    /\ summaryAudioBuffer = Null
    /\ isSummaryLoading = FALSE
    /\ showSummaryPlayer = FALSE
    /\ nightVideoUrl = Null
    /\ isNightVideoLoading = FALSE
    /\ internalLoading = [n \in 1..MaxSteps |-> FALSE]
    /\ requests = {}
    /\ derivedCalls = {}
    /\ epoch = 0
    /\ effectPending = FALSE
    /\ pausedAt = Null
    /\ materialImages = EmptyMap
    /\ selectedMaterial = Null
    /\ generatingMaterialImage = FALSE
    /\ materialCalls = [m \in MaterialNames |-> 0]
    /\ completedSubsteps = EmptyMap
    /\ batchBase = Null
    /\ EditInit
    /\ PlayerInit

\* React runs the component's effect after the commit, before the next event
PlayerRegenerate == ~PlayerEffectDue /\ handleGenerate /\ calls = Len(plan)
PlayerManualResolved == ~PlayerEffectDue /\ ManualResolved
PlayerOrchestratorEffect == ~PlayerEffectDue /\ OrchestratorEffect
PlayerGenerateSummary == ~PlayerEffectDue /\ handleGenerateSummary
PlayerSummaryResolved == ~PlayerEffectDue /\ SummaryResolved
PlayerClose == ~PlayerEffectDue /\ closeSummaryPlayer

NextPlayer ==
    \/ SummaryPlayerEffect
    \/ PlayerRegenerate
    \/ PlayerManualResolved
    \/ PlayerOrchestratorEffect
    \/ PlayerGenerateSummary
    \/ PlayerSummaryResolved
    \/ PlayerClose
    \/ InitAudioResolved
    \/ Tick
    \/ \E p \in 1..MaxPlaybacks : animate(p)
    \/ \E p \in 1..MaxPlaybacks : onended(p)

SpecPlayer == InitPlayer /\ [][NextPlayer]_vars

\* ---- the checklist alone -------------------------------------------------
\* Substep lists a synthesized step can have.
SubstepLists ==
    UNION {[1..n -> SubstepTexts] : n \in 0..MaxSubsteps}

\* The result screen of a two-step plan whose first step has any substep
\* list; nothing is checked yet.
InitEdit ==
    /\ version \in {"v1", "v2"}
    /\ appState = "RESULT"
    /\ inspirationImage = Some("inspiration")
    /\ currentImage = Some(OrigImage)
    /\ \E subs \in SubstepLists :
          plan = <<[stepNumber |-> 1, substeps |-> subs],
                   [stepNumber |-> 2, substeps |-> <<"A">>]>>
    /\ stepVisuals = EmptyMap
    /\ generatingStepIndex = Null
    /\ videoUrl = Null
    /\ isVideoLoading = FALSE
    /\ variants = EmptyMap
    /\ isVariantsLoading = FALSE
    /\ summaryAudioBuffer = Null
    /\ isSummaryLoading = FALSE
    /\ showSummaryPlayer = FALSE
    /\ nightVideoUrl = Null
    /\ isNightVideoLoading = FALSE
    /\ internalLoading = [n \in 1..MaxSteps |-> FALSE]
    /\ requests = {}
    /\ calls = 0
    /\ derivedCalls = {}
    /\ epoch = 0
    /\ effectPending = TRUE
    /\ pausedAt = Null
    /\ materialImages = EmptyMap
    /\ selectedMaterial = Null
    /\ generatingMaterialImage = FALSE
    /\ materialCalls = [m \in MaterialNames |-> 0]
    /\ completedSubsteps = EmptyMap
    /\ batchBase = Null
    /\ EditInit
    /\ PlayerInit

NextEdit ==
    \/ OrchestratorEffect
    \/ \E stepIndex \in 0..1, subIdx \in 0..(MaxSubsteps - 1) :
          toggleSubstep(stepIndex, subIdx)
    \/ \E in \in MoveInputs : moveSubstep(in.sIdx, in.subIdx, in.direction)

SpecEdit == InitEdit /\ [][NextEdit]_vars

\* ---- the checklist editor: every editing operation on one step --------------
\* The result screen of a plan with one step of two substeps; the step's
\* image is generated while the user edits.
InitEditing ==
    /\ version \in {"v1", "v2"}
    /\ appState = "RESULT"
    /\ inspirationImage = Some("inspiration")
    /\ currentImage = Some(OrigImage)
    /\ plan = <<[stepNumber |-> 1, substeps |-> <<"A", "B">>]>>
    /\ stepVisuals = EmptyMap
    /\ generatingStepIndex = Null
    /\ videoUrl = Null
    /\ isVideoLoading = FALSE
    /\ variants = EmptyMap
    /\ isVariantsLoading = FALSE
    /\ summaryAudioBuffer = Null
    /\ isSummaryLoading = FALSE
    /\ showSummaryPlayer = FALSE
    /\ nightVideoUrl = Null
    /\ isNightVideoLoading = FALSE
    /\ internalLoading = [n \in 1..MaxSteps |-> FALSE]
    /\ requests = {}
    /\ calls = 0
    /\ derivedCalls = {}
    /\ epoch = 0
    /\ effectPending = TRUE
    /\ pausedAt = Null
    /\ materialImages = EmptyMap
    /\ selectedMaterial = Null
    /\ generatingMaterialImage = FALSE
    /\ materialCalls = [m \in MaterialNames |-> 0]
    /\ completedSubsteps = EmptyMap
    /\ batchBase = Null
    /\ EditInit
    /\ PlayerInit

EditRows == {0} \X (0..MaxEditLen)

NextEditing ==
    \/ OrchestratorEffect
    \/ AutoSettled(TRUE)
    \/ \E row \in EditRows : toggleSubstep(row[1], row[2])
    \/ \E in \in MoveInputs : moveSubstep(in.sIdx, in.subIdx, in.direction)
    \/ \E row \in EditRows : startEditingSubstep(row[1], row[2])
    \/ \E text \in TypedTexts : setEditValue(text)
    \/ saveSubstep
    \/ cancelEditing
    \/ \E row \in EditRows : deleteSubstep(row[1], row[2])
    \/ addSubstep(0)

SpecEditing == InitEditing /\ [][NextEditing]_vars

\* ==== properties ==========================================================
\* Step-image calls issued by the step being taken, and the automatic ones.
Issued == requests' \ requests
AutoIssued == {r \in Issued : r.kind = "auto"}
\* Calls settled by the step being taken.
Settled == requests \ requests'
\* handleStepVisualGenerated was applied by the step being taken.  (reset and
\* handleSubmit are the only other writers and they leave the map empty; a
\* write always stores an image with a new identity.)
VisualWritten == stepVisuals' # stepVisuals /\ stepVisuals' # EmptyMap

\* C1: after an automatic attempt for step n failed, the orchestrator issues
\* no automatic request (for n or any other step) until a manual generation
\* for n has succeeded.
C1_NoAutoRetry == [][pausedAt # Null => AutoIssued = {}]_vars

\* C2: at most one step-image request, automatic or manual, is outstanding
\* at any time.
C2_OneRequestProcessWide == Cardinality(requests) <= 1

\* C3: a step after the first has a stored visual only if the step before it
\* has one (no gaps).
C3_NoGaps == \A n \in DOMAIN stepVisuals : n > 1 => Has(n - 1)

\* C4: every application of handleStepVisualGenerated(k, image) leaves the
\* new image at key k, no key greater than k, and every entry with a key less
\* than k as it was.
C4_WriteInvalidatesDownstream ==
    [][VisualWritten =>
         \E r \in Settled :
            /\ r.step \in DOMAIN stepVisuals'
            /\ stepVisuals'[r.step] = ImageOf(r)
            /\ \A m \in DOMAIN stepVisuals' : m <= r.step
            /\ \A m \in 1..(r.step - 1) :
                  /\ m \in DOMAIN stepVisuals' <=> m \in DOMAIN stepVisuals
                  /\ m \in DOMAIN stepVisuals => stepVisuals'[m] = stepVisuals[m]
    ]_vars

\* C4 witness: in a 3-step plan with all three visuals stored, step 2 was
\* regenerated (fourth call, fourth image): step 1 is kept, step 3 is gone.
C4_Witness ==
    /\ plan # Null /\ Len(plan) = 3
    /\ DOMAIN stepVisuals = {1, 2}
    /\ stepVisuals[1].id = 1
    /\ stepVisuals[2].id = 4
    /\ requests = {} /\ calls = 4 /\ pausedAt = Null

C6_StrictSequence ==
    [][/\ \A r \in AutoIssued : \A n \in 1..(r.step - 1) : Has(n)
       /\ \A r \in Settled :
            (r.kind = "auto" /\ r.epoch = epoch /\ ~VisualWritten)
               => /\ stepVisuals' = stepVisuals
                  /\ DOMAIN stepVisuals' = 1..(r.step - 1)
    ]_vars

\* C7: with no user action and every step-image call succeeding, the chain
\* eventually completes: exactly the keys 1..N are stored, nothing is in
\* flight, and exactly N calls were issued, the k-th one for step k.
C7_Complete ==
    /\ DOMAIN stepVisuals = 1..Len(plan)
    /\ generatingStepIndex = Null
    /\ requests = {}
    /\ calls = Len(plan)
C7_AutoChainCompletes ==
    /\ <>C7_Complete
    /\ [][calls' # calls =>
            /\ Cardinality(Issued) = 1
            /\ \A r \in Issued : r.kind = "auto" /\ r.step = calls']_vars

\* C7 witness: a 3-step plan fully visualized by three calls.
C7_Witness == Len(plan) = 3 /\ C7_Complete

C9_SingleFlightAuto ==
    [][/\ generatingStepIndex # Null => AutoIssued = {}
       /\ (generatingStepIndex = Null /\ generatingStepIndex' # Null)
            => Cardinality(AutoIssued) = 1
    ]_vars

\* C9 witness: an automatic call is outstanding and the orchestrator has been
\* evaluated again since the marker was set.
C9_Witness ==
    /\ generatingStepIndex # Null
    /\ ~effectPending
    /\ PendingOf("auto") # {}

\* Derived-media calls issued, and calls settled for good, by the step taken.
DerivedIssued ==
    {d \in derivedCalls' \ derivedCalls :
        d.kind = "variants" => \A c \in VariantNames : d.results[c] = "pending"}
DerivedSettled ==
    {d \in derivedCalls \ derivedCalls' :
        d.kind = "variants" =>
            Cardinality({c \in VariantNames : d.results[c] = "pending"}) = 1}

\* C10: for each step at most one generation attempt, automatic or manual,
\* is outstanding.
C10_OneAttemptPerStep ==
    \A n \in 1..MaxSteps : Cardinality({r \in requests : r.step = n}) <= 1

\* C11: when a request that was issued before the last reset resolves, the
\* Artifact Store of the cleared or new session is left as it is: stepVisuals,
\* variants, the video URLs and the audio buffer do not change.
C11_LateResultDropped ==
    [][(\/ \E r \in Settled : r.epoch # epoch
        \/ \E d \in DerivedSettled : d.epoch # epoch)
          => UNCHANGED <<stepVisuals, variants, videoUrl, nightVideoUrl,
                         summaryAudioBuffer>>
    ]_vars

\* C12: when a variant batch resolves, the published map holds an entry, made
\* from the batch's image, for every configuration whose call succeeded and
\* no entry for a configuration whose call failed.
C12_PublishedIsSucceeded ==
    [][\A b \in DerivedSettled : b.kind = "variants" =>
         /\ \A x \in VariantNames :
               /\ b.results[x] = "ok" => x \in DOMAIN variants'
               /\ b.results[x] = "failed" => x \notin DOMAIN variants'
         /\ \A x \in DOMAIN variants' : x \in VariantNames /\ variants'[x] = b.base
    ]_vars

\* C12 witness: a batch has resolved with exactly two of the three
\* configurations published.
C12_Witness ==
    /\ Cardinality(DOMAIN variants) = 2
    /\ ~isVariantsLoading
    /\ \A d \in derivedCalls : d.kind # "variants"

\* C13: the variants map takes a non-empty value only in the step in which
\* the last outstanding call of a batch settles; the calls of a batch that
\* settle before the last one leave it unchanged, in any order.
C13_AtomicPublish ==
    [][variants' # variants =>
          \/ variants' = EmptyMap
          \/ \E b \in DerivedSettled : b.kind = "variants"
    ]_vars

\* C13 witness: two calls of a batch have succeeded, the third is
\* outstanding, and nothing is published.
C13_Witness ==
    /\ variants = EmptyMap
    /\ \E b \in derivedCalls :
          /\ b.kind = "variants"
          /\ Cardinality({c \in VariantNames : b.results[c] = "ok"}) = 2
          /\ Cardinality({c \in VariantNames : b.results[c] = "pending"}) = 1

\* C14: a variant batch is never started for a final image for which a
\* batch was already started.
C14_OneBatchPerChain ==
    [][\A d \in DerivedIssued : d.kind = "variants" => batchBase # Some(d.base)]_vars

\* C15: a click on a material whose name has an entry in materialImages
\* issues no product-image call and leaves materialImages as it is.
C15_CachedClickNoCall ==
    [][\A item \in MaterialNames :
          (handleMaterialClick(item) /\ item \in DOMAIN materialImages)
             => /\ materialCalls' = materialCalls
                /\ materialImages' = materialImages
                /\ generatingMaterialImage' = generatingMaterialImage
    ]_vars

\* C15 witness: the modal shows the cached "paint" while the call for "drill",
\* issued by the latest click that issued one, is still outstanding, and the
\* plan was edited: the click on "paint" came after "drill" and issued nothing.
C15_Witness ==
    /\ selectedMaterial = Some("paint")
    /\ DOMAIN materialImages = {"paint"}
    /\ materialCalls["paint"] = 0 /\ materialCalls["drill"] = 1
    /\ generatingMaterialImage
    /\ plan # NewPlan(1)

\* C16: for each material name at most one product-image call is outstanding.
C16_OneRequestPerMaterial == \A item \in MaterialNames : materialCalls[item] <= 1

\* C17: a video-tour call is issued only when no video-tour call is
\* outstanding and no video is cached.
C17_VideoSingleFlight ==
    [][\A d \in DerivedIssued : d.kind \in {"video", "night"} =>
          /\ \A e \in derivedCalls : e.kind # d.kind
          /\ videoUrl = Null /\ nightVideoUrl = Null
    ]_vars

\* C18: a summary-audio call is issued only when no audio call is
\* outstanding and no audio buffer is cached.
C18_AudioSingleFlight ==
    [][\A d \in DerivedIssued : d.kind = "audio" =>
          /\ \A e \in derivedCalls : e.kind # "audio"
          /\ summaryAudioBuffer = Null
    ]_vars

\* C19: moveSubstep(s, i, d) with i and i+d inside the list of step s swaps
\* the texts at i and i+d and the flags of keys "s-i" and "s-(i+d)"; every
\* other substep, step and completion key is as before.
C19_MoveSwaps ==
    \A in \in MoveInputs : ~AtBoundary(in) =>
        LET res == moveSubstepResult(plan, completedSubsteps,
                                     in.sIdx, in.subIdx, in.direction)
            i == in.subIdx
            j == in.subIdx + in.direction
            old == SubstepsOf(plan, in.sIdx)
            new == SubstepsOf(res.plan, in.sIdx)
            ki == SubstepKey(in.sIdx, i)
            kj == SubstepKey(in.sIdx, j)
        IN /\ DOMAIN new = DOMAIN old
           /\ new[i + 1] = old[j + 1] /\ new[j + 1] = old[i + 1]
           /\ \A k \in DOMAIN old \ {i + 1, j + 1} : new[k] = old[k]
           /\ DOMAIN res.plan = DOMAIN plan
           /\ \A s \in DOMAIN plan :
                 /\ res.plan[s].stepNumber = plan[s].stepNumber
                 /\ s # in.sIdx + 1 => res.plan[s] = plan[s]
           /\ Flag(res.completedSubsteps, ki) = Flag(completedSubsteps, kj)
           /\ Flag(res.completedSubsteps, kj) = Flag(completedSubsteps, ki)
           /\ DOMAIN res.completedSubsteps \ {ki, kj} = DOMAIN completedSubsteps \ {ki, kj}
           /\ \A k \in DOMAIN completedSubsteps \ {ki, kj} :
                 res.completedSubsteps[k] = completedSubsteps[k]

\* C19 witness: [A,B,C] with only B checked, after moving index 1 up:
\* [B,A,C] with key 0-0 checked and key 0-1 holding the unset flag of A.
C19_Witness ==
    /\ SubstepsOf(plan, 0) = <<"B", "A", "C">>
    /\ DOMAIN completedSubsteps = {"0-0", "0-1"}
    /\ completedSubsteps["0-0"] = "true"
    /\ completedSubsteps["0-1"] = "undefined"

\* C20: moveSubstep on the first substep with direction -1, or on the last
\* substep with direction +1, returns the plan and completedSubsteps it was
\* given.
C20_BoundaryNoOp ==
    \A in \in MoveInputs : AtBoundary(in) =>
        moveSubstepResult(plan, completedSubsteps, in.sIdx, in.subIdx, in.direction)
            = [plan |-> plan, completedSubsteps |-> completedSubsteps]

\* C20 witness: a checked substep sits at the edge of a list of three, moved
\* there from the middle.
C20_Witness ==
    /\ Len(SubstepsOf(plan, 0)) = 3
    /\ DOMAIN completedSubsteps = {"0-1", "0-2"}
    /\ completedSubsteps["0-2"] = "true"
    /\ completedSubsteps["0-1"] = "undefined"
    /\ ~effectPending

\* ---- claims C21..C30 -------------------------------------------------------
\* C21: after a substep is deleted, every remaining substep of that step is
\* shown with the completion of the same item as before the deletion, and a
\* substep added afterwards is shown unchecked: no substep is shown completed
\* because of a flag that was set for a different item.
C21_FlagsFollowItems ==
    [][ /\ \A row \in EditRows :
             deleteSubstep(row[1], row[2]) =>
                \A j \in 0..(Len(SubstepsOf(plan', row[1])) - 1) :
                    Checked(completedSubsteps', SubstepKey(row[1], j))
                      = Checked(completedSubsteps,
                                SubstepKey(row[1], IF j < row[2] THEN j ELSE j + 1))
        /\ addSubstep(0) =>
              ~Checked(completedSubsteps',
                       SubstepKey(0, Len(SubstepsOf(plan', 0)) - 1)) ]_vars

\* C22: the plan-editing operations (edit and save, cancel, delete, move, add,
\* toggle completion) leave stepVisuals, the in-flight markers, the derived
\* artifacts and the outstanding calls as they are, and the run of the
\* orchestrator effect that a changed plan triggers issues no Gateway call.
EditOp ==
    \/ \E row \in EditRows :
          \/ toggleSubstep(row[1], row[2])
          \/ startEditingSubstep(row[1], row[2])
          \/ deleteSubstep(row[1], row[2])
    \/ \E in \in MoveInputs : moveSubstep(in.sIdx, in.subIdx, in.direction)
    \/ \E text \in TypedTexts : setEditValue(text)
    \/ saveSubstep
    \/ cancelEditing
    \/ addSubstep(0)
EffectWouldIssue ==
    /\ ~OrchestratorReturns
    /\ \/ MissingSteps # {}
       \/ /\ version = "v1"
          /\ isFinalStepVisualized
          /\ DOMAIN variants = {}
          /\ ~isVariantsLoading
C22_EditsLeaveGenerationAlone ==
    [][EditOp =>
          /\ UNCHANGED <<stepVisuals, generatingStepIndex, internalLoading,
                         variants, isVariantsLoading, videoUrl, isVideoLoading,
                         nightVideoUrl, isNightVideoLoading, summaryAudioBuffer,
                         isSummaryLoading, requests, calls, derivedCalls>>
          /\ ~EffectWouldIssue']_vars

\* C22 witness: the step's image is stored, its only call was the automatic
\* one, and the checklist has been edited: a substep was added and is being
\* edited, another was checked, and the effect triggered by the edit has run.
C22_Witness ==
    /\ DOMAIN stepVisuals = {1}
    /\ calls = 1
    /\ SubstepsOf(plan, 0) = <<"edited", NewStepText>>
    /\ isEditing(0, 1)
    /\ Checked(completedSubsteps, "0-0")
    /\ ~effectPending

\* C23: when plan synthesis fails the application is in ERROR with no plan;
\* in ERROR no Gateway call of any kind is issued; the only way out of ERROR
\* is reset, which leads to INPUT with no plan.
C23_PlanFailure ==
    /\ [](appState = "ERROR" => plan = Null)
    /\ [][ /\ (appState = "ANALYZING" /\ appState' # "ANALYZING") =>
                \/ appState' = "RESULT" /\ plan' # Null
                \/ appState' = "ERROR" /\ plan' = Null
           /\ appState = "ERROR" =>
                /\ Issued = {}
                /\ DerivedIssued = {}
                /\ appState' # "ERROR" =>
                      appState' = "INPUT" /\ plan' = Null /\ epoch' = epoch + 1
         ]_vars

\* C23 witness: the second submission failed after a first session that got
\* its plan; the orchestrator effect has run in ERROR, and a call of the first
\* session is still outstanding.
C23_Witness ==
    /\ appState = "ERROR"
    /\ epoch = 1
    /\ ~effectPending
    /\ requests # {}

\* C28: immediately after reset, and immediately after a new submission
\* starts, stepVisuals, completedSubsteps, materialImages and variants are
\* empty, no video or audio is cached and no step is marked in flight; reset
\* also leaves no plan.
StoreEmpty ==
    /\ stepVisuals = EmptyMap
    /\ completedSubsteps = EmptyMap
    /\ materialImages = EmptyMap
    /\ variants = EmptyMap
    /\ videoUrl = Null
    /\ nightVideoUrl = Null
    /\ summaryAudioBuffer = Null
    /\ generatingStepIndex = Null
C28_StoreEmptiedOnResetAndSubmit ==
    [][ /\ (reset \/ handleSubmit) => StoreEmpty'
        /\ reset => plan' = Null ]_vars

\* C28 witness: the second submission has just started; the first session had
\* its step image and a variant batch, and one of its calls is still
\* outstanding.
C28_Witness ==
    /\ appState = "ANALYZING"
    /\ epoch = 1
    /\ batchBase # Null
    /\ derivedCalls # {}
    /\ effectPending
    /\ StoreEmpty

\* C24: when a step-image call for step n fails, automatic or manual, nothing
\* is stored, the stored visuals and the plan stay as they were and the
\* application stays in RESULT; and once the orchestrator effect has run after
\* an automatic failure at n, one of the two manual buttons of step n can be
\* clicked.
StepCallFailed ==
    \/ AutoSettled(FALSE)
    \/ ManualResolved /\ UNCHANGED stepVisuals
C24_StepFailureLeavesRetry ==
    /\ [][StepCallFailed =>
             /\ UNCHANGED <<stepVisuals, plan, variants, videoUrl, nightVideoUrl,
                            summaryAudioBuffer>>
             /\ appState' = "RESULT"]_vars
    /\ []((pausedAt # Null /\ appState = "RESULT" /\ ~effectPending)
             => CanClickGenerate(pausedAt[1]))

\* C27: a video, variant-batch or summary-audio call is issued only when every
\* step 1..N of the plan has a stored visual.
C27_DerivedNeedsAllSteps ==
    [][DerivedIssued # {} => (plan # Null /\ MissingSteps = {})]_vars

\* C25: when a video or summary-audio call fails, the plan and every store
\* entry (stepVisuals, variants, materialImages, cached videos, cached audio)
\* are left as they were, the loading flag of that kind is false, and the
\* handler of that kind accepts a new request.
MediaKinds == {"video", "night", "audio"}
CacheOf(kind) ==
    IF kind = "video" THEN videoUrl
    ELSE IF kind = "night" THEN nightVideoUrl
    ELSE <<summaryAudioBuffer, showSummaryPlayer>>
LoadingOf(kind) ==
    IF kind = "video" THEN isVideoLoading
    ELSE IF kind = "night" THEN isNightVideoLoading
    ELSE isSummaryLoading
\* the conditions under which the handler of a kind issues a call
Accepts(kind) ==
    /\ appState = "RESULT" /\ plan # Null
    /\ isFinalStepVisualized
    /\ ~LoadingOf(kind)
    /\ kind = "video" => videoUrl = Null
    /\ kind = "night" => nightVideoUrl = Null
\* calls of these kinds that settle in this step without a result
MediaFailed ==
    {d \in DerivedSettled :
        d.kind \in MediaKinds /\ CacheOf(d.kind)' = CacheOf(d.kind)}
C25_MediaFailureHarmless ==
    [][\A d \in MediaFailed :
          /\ UNCHANGED <<plan, stepVisuals, variants, materialImages, videoUrl,
                         nightVideoUrl, summaryAudioBuffer>>
          /\ ~LoadingOf(d.kind)'
          /\ Accepts(d.kind)']_vars

\* C25 witness (first revision): the room-tour video call has just failed
\* while the variant batch is half settled: the flag is false again, nothing
\* is cached, and the effect the flag change triggers is due.
C25_Witness ==
    /\ version = "v1"
    /\ effectPending
    /\ ~isVideoLoading /\ videoUrl = Null
    /\ requests = {} /\ calls = 1
    /\ DOMAIN materialImages # {}
    /\ \E d \in derivedCalls :
          /\ d.kind = "variants"
          /\ \E c1, c2 \in VariantNames :
                d.results[c1] = "pending" /\ d.results[c2] # "pending"

\* C26: whenever a Gateway call settles, with a result or without, the flag of
\* its kind is cleared (generatingStepIndex,
\* isVariantsLoading once the whole batch has settled, generatingMaterialImage,
\* isVideoLoading, isNightVideoLoading, isSummaryLoading), and the application
\* is in RESULT afterwards.
MaterialSettled ==
    \E m \in MaterialNames : materialCalls'[m] < materialCalls[m]
C26_SettleClearsFlag ==
    [][ /\ \A r \in Settled : r.kind = "auto" => generatingStepIndex' = Null
        /\ \A d \in DerivedSettled :
              /\ d.kind = "variants" => ~isVariantsLoading'
              /\ d.kind \in MediaKinds => ~LoadingOf(d.kind)'
        /\ MaterialSettled => ~generatingMaterialImage'
        /\ (Settled # {} \/ DerivedSettled # {} \/ MaterialSettled)
              => appState' = "RESULT" ]_vars

\* C26 witness: the automatic call for step 1 failed and its marker is
\* cleared, a product-image call failed with its flag cleared and nothing
\* cached, and the application is on the result screen.
C26_Witness ==
    /\ appState = "RESULT"
    /\ pausedAt = Some(1) /\ generatingStepIndex = Null
    /\ selectedMaterial # Null
    /\ ~generatingMaterialImage
    /\ OutstandingMaterialCalls = 0
    /\ DOMAIN materialImages = {}

\* C29: at every frame of a playback of imageCount >= 1 images and duration D
\* taken at elapsed time t, 0 <= t < D, the index shown is
\* min(floor(t * imageCount / D), imageCount - 1), the floor being the integer
\* K with K * D <= t * imageCount < (K + 1) * D; 4 images, D = 8, t = 5 give 2.
IndexAt(t, D, imageCount, index) ==
    \E K \in 0..imageCount :
        /\ K * D <= t * imageCount
        /\ t * imageCount < (K + 1) * D
        /\ index = (IF K < imageCount - 1 THEN K ELSE imageCount - 1)
C29_SlideIndex ==
    /\ [](displayedIndex(5, 8, 4) = 2)
    /\ [][\A p \in 1..MaxPlaybacks :
            (animate(p) /\ currentTime - startTimeRef < durationRef) =>
                IndexAt(currentTime - startTimeRef, durationRef,
                        playbacks[p].images, currentImageIndex')]_vars

\* C29 witness: three images, duration 2, a frame taken at elapsed time 1
\* shows index 1 = floor(3 / 2).
C29_Witness ==
    /\ playbacks # <<>>
    /\ playbacks[1].images = 3 /\ playbacks[1].frame
    /\ durationRef = 2
    /\ currentTime - startTimeRef = 1
    /\ currentImageIndex = 1

\* C30: when playback has stopped, by the audio reaching its end or by
\* stopPlayback, the player that is still shown displays the final image
\* (index imageCount - 1).
PlaybackOver ==
    /\ playbacks # <<>>
    /\ audioInits = <<>>
    /\ \A p \in DOMAIN playbacks :
          playbacks[p].source # "playing" /\ ~playbacks[p].frame
C30_StopShowsFinalImage ==
    (appState = "RESULT" /\ showSummaryPlayer /\ ~PlayerEffectDue /\ PlaybackOver)
        => currentImageIndex = playbacks[Len(playbacks)].images - 1

\* ---- video synthesis: generateRoomTourVideo / generateNightTourVideo -------
\* The two functions of geminiService.ts have the same body.  A tour call is
\* the record the handler put into derivedCalls; once ai.models.generateVideos
\* has answered, the record carries the function's position and the last
\* operation value it received.
TourKinds == {"video", "night"}
TourCalls == {b \in derivedCalls : b.kind \in TourKinds}
KeyChecked(b) == "key" \in DOMAIN b
Started(b) == "pc" \in DOMAIN b

\* the handler's first try block: hasSelectedApiKey() answered true, or
\* answered false and openSelectKey() resolved, or one of the two threw
KeyCheckOutcomes == {"hasKey", "selected", "failed"}
\* catch (e) { console.warn(...) }: whatever the outcome, the handler goes on
\* to its second try block
KeyCheckContinues_rethrows(outcome) == outcome # "failed"
KeyCheckContinues(outcome) == TRUE

\* what the function does with an operation value: while (!operation.done)
\* sleep and poll; then videoUri = operation.response?...uri,
\* if (!videoUri) throw new Error("Video generation failed"); then fetch
AfterOperation_noLoop(b, done, uri, polls) ==
    [kind |-> b.kind, epoch |-> b.epoch, base |-> b.base, key |-> b.key,
     done |-> done, uri |-> uri, polls |-> polls,
     pc |-> IF ~uri THEN "failed" ELSE "fetch"]
AfterOperation(b, done, uri, polls) ==
    [kind |-> b.kind, epoch |-> b.epoch, base |-> b.base, key |-> b.key,
     done |-> done, uri |-> uri, polls |-> polls,
     pc |-> IF ~done THEN "sleep" ELSE IF ~uri THEN "failed" ELSE "fetch"]
Rejected(b, polls) ==
    [kind |-> b.kind, epoch |-> b.epoch, base |-> b.base, key |-> b.key,
     done |-> FALSE, uri |-> FALSE, polls |-> polls, pc |-> "rejected"]

\* the operation values the backend can answer with: a result URI can be
\* present only in an operation that is done
Operations == {<<FALSE, FALSE>>, <<TRUE, FALSE>>, <<TRUE, TRUE>>}

notPolled ==
    <<editVars, playerVars, materialVars, completedSubsteps, batchBase, appVars,
      stepVisuals, generatingStepIndex, v1Vars, v2Vars, internalLoading,
      requests, calls, epoch, effectPending, pausedAt>>

\* the platform key check of the handler settles; the handler then calls
\* the synthesis function, which requests ai.models.generateVideos
keyCheckSettled ==
    /\ ~effectPending
    /\ \E b \in TourCalls, outcome \in KeyCheckOutcomes :
         /\ ~KeyChecked(b)
         /\ IF KeyCheckContinues(outcome)
            THEN derivedCalls' = (derivedCalls \ {b}) \cup
                    {[kind |-> b.kind, epoch |-> b.epoch, base |-> b.base,
                      key |-> outcome]}
            ELSE derivedCalls' = derivedCalls \ {b}
    /\ UNCHANGED notPolled

\* await ai.models.generateVideos(...) settles
generateVideosSettled ==
    /\ ~effectPending
    /\ \E b \in TourCalls :
         /\ KeyChecked(b) /\ ~Started(b)
         /\ \/ \E op \in Operations :
                 derivedCalls' = (derivedCalls \ {b})
                                    \cup {AfterOperation(b, op[1], op[2], 0)}
            \/ derivedCalls' = (derivedCalls \ {b}) \cup {Rejected(b, 0)}
    /\ UNCHANGED notPolled

\* the 5 s timer of the polling loop fires: getVideosOperation is requested
setTimeoutFired ==
    /\ ~effectPending
    /\ \E b \in TourCalls :
         /\ Started(b) /\ b.pc = "sleep"
         /\ b.polls < MaxPolls
         /\ derivedCalls' = (derivedCalls \ {b})
               \cup {[b EXCEPT !.pc = "getVideosOperation", !.polls = @ + 1]}
    /\ UNCHANGED notPolled

\* await ai.operations.getVideosOperation({operation}) settles
getVideosOperationSettled ==
    /\ ~effectPending
    /\ \E b \in TourCalls :
         /\ Started(b) /\ b.pc = "getVideosOperation"
         /\ \/ \E op \in Operations :
                 derivedCalls' = (derivedCalls \ {b})
                                    \cup {AfterOperation(b, op[1], op[2], b.polls)}
            \/ derivedCalls' = (derivedCalls \ {b}) \cup {Rejected(b, b.polls)}
    /\ UNCHANGED notPolled

\* await fetch(videoUri), await response.blob(), return URL.createObjectURL:
\* the download settles
fetchSettled ==
    /\ ~effectPending
    /\ \E b \in TourCalls :
         /\ Started(b) /\ b.pc = "fetch"
         /\ \/ derivedCalls' = (derivedCalls \ {b}) \cup {[b EXCEPT !.pc = "resolved"]}
            \/ derivedCalls' = (derivedCalls \ {b}) \cup {[b EXCEPT !.pc = "rejected"]}
    /\ UNCHANGED notPolled

\* the handler's continuation after its await, for a call that has returned
\* or thrown: the outcome it sees is the function's
Returned(b) == Started(b) /\ b.pc = "resolved"
Thrown(b) == Started(b) /\ b.pc \in {"rejected", "failed"}
TourOutcome(url, urlNext) ==
    \E b \in derivedCalls \ derivedCalls' :
        \/ Returned(b) /\ urlNext = Some(b.base)
        \/ Thrown(b) /\ urlNext = url
PolledVideoResolved == VideoResolved /\ TourOutcome(videoUrl, videoUrl')
PolledNightTourResolved ==
    NightTourResolved /\ TourOutcome(nightVideoUrl, nightVideoUrl')

NextPolling ==
    \/ OrchestratorEffect
    \/ AutoSettled(TRUE)
    \/ handleGenerate
    \/ ManualResolved
    \/ handleGenerateVideo
    \/ handleGenerateNightTour
    \/ keyCheckSettled
    \/ generateVideosSettled
    \/ setTimeoutFired
    \/ getVideosOperationSettled
    \/ fetchSettled
    \/ PolledVideoResolved
    \/ PolledNightTourResolved

\* React runs a due effect; a download that was started settles, with a
\* video or with an error
SpecPolling ==
    /\ InitMaterials /\ [][NextPolling]_vars
    /\ WF_vars(OrchestratorEffect)
    /\ WF_vars(fetchSettled)

\* ---- claims C31..C40 -----------------------------------------------------
\* C31: once the player's effect has run for a closed player or a cleared
\* audio buffer, no audio source is playing and no frame of an animation loop
\* is scheduled, also when initAudio was still waiting at the time.
PlayerReleased ==
    \A p \in DOMAIN playbacks :
        playbacks[p].source # "playing" /\ ~playbacks[p].frame
C31_ClosedPlayerIsSilent ==
    (/\ appState = "RESULT"
     /\ ~PlayerEffectDue
     /\ ~(showSummaryPlayer /\ summaryAudioBuffer # Null))
        => PlayerReleased

\* C32: every step-image call, automatic or manual, is issued with the
\* uploaded current-state image as context for step 1 and with the image
\* stored for step n-1 at that moment for a step n > 1.
ContextAtIssue(r) ==
    IF r.step = 1
    THEN r.ctx = OrigImage
    ELSE Has(r.step - 1) /\ r.ctx = stepVisuals[r.step - 1].id
C32_ContextIsPredecessor == [][\A r \in Issued : ContextAtIssue(r)]_vars

\* C33 as stated: a video call ends only after the operation was reported
\* done, with a video URL when the operation has a result URI and with a
\* failure when it has none; a call whose operation was never reported done
\* does not end, and the loading flag of its kind stays set.
Ended(b) == Returned(b) \/ Thrown(b)
C33_EndsOnlyOnDone ==
    \A b \in TourCalls :
        /\ LoadingOf(b.kind)
        /\ Ended(b) => b.done /\ (Returned(b) <=> b.uri)

\* C33, amended: the same, except that a request of the call that fails
\* (generateVideos, a poll, the download) ends the call with that failure.
\* While no request has failed: the function is in its polling loop exactly
\* while the last operation it received is not done, it downloads only a done
\* operation with a URI, and it throws "Video generation failed" only for a
\* done operation without one.  A download that was started ends.
Downloading == \E b \in TourCalls : Started(b) /\ b.pc = "fetch"
C33_PollUntilDone ==
    /\ [](\A b \in TourCalls :
            /\ LoadingOf(b.kind)
            /\ Started(b) =>
                 /\ b.pc \in {"sleep", "getVideosOperation"} => ~b.done
                 /\ b.pc \in {"fetch", "resolved"} => b.done /\ b.uri
                 /\ b.pc = "failed" => b.done /\ ~b.uri
                 /\ (Ended(b) /\ b.pc # "rejected") => b.done)
    /\ [][\A b \in TourCalls : b \notin derivedCalls' =>
            \/ Ended(b)
            \/ \E c \in TourCalls' : c.kind = b.kind /\ c.base = b.base]_vars
    /\ Downloading ~> ~Downloading

\* C33 witness: a call that returned its video after the last poll the bound
\* allows reported done.
C33_Witness ==
    \E b \in TourCalls : Returned(b) /\ b.polls = MaxPolls

\* C34: when the platform key check of a video request settles, by an answer
\* or by an exception, the synthesis call of that same request is issued; and
\* when a request whose key check failed ends, the loading flag is cleared,
\* so that a request that ended without a video can be made again.
SameRequest(b, c) == c.kind = b.kind /\ c.base = b.base /\ c.epoch = b.epoch
C34_KeyCheckFailureGoesOn ==
    [][\A b \in TourCalls :
          /\ (~KeyChecked(b) /\ b \notin derivedCalls') =>
                \E c \in TourCalls' :
                    SameRequest(b, c) /\ KeyChecked(c) /\ ~Started(c)
          /\ (KeyChecked(b) /\ b.key = "failed" /\ Ended(b)
                /\ b \notin derivedCalls') =>
                /\ ~LoadingOf(b.kind)'
                /\ Thrown(b) => Accepts(b.kind)']_vars

\* C34 witness: the synthesis call of a request whose key check threw has
\* returned its video.
C34_Witness ==
    \E b \in TourCalls : KeyChecked(b) /\ b.key = "failed" /\ Returned(b)

\* C35: a manual generation for step n is started only while step n is
\* unlocked (n is the first step or step n-1 has a stored visual) and no
\* generation for step n is shown as loading.
ManualIssued == {r \in Issued : r.kind = "manual"}
C35_ManualOnlyWhenUnlocked ==
    [][\A r \in ManualIssued : ~isLocked(r.step) /\ ~isLoading(r.step)]_vars

\* C36: every stored visual of a step n > 1 was generated from the image
\* that is stored for step n-1 now.
C36_ChainConsistent ==
    \A n \in DOMAIN stepVisuals :
        (n > 1 /\ Has(n - 1)) => stepVisuals[n].ctx = stepVisuals[n - 1].id

\* C37: a cached tour video and every published variant were generated from
\* the image that is stored for the final step now.
FinalImageIs(id) ==
    /\ plan # Null
    /\ Has(plan[Len(plan)].stepNumber)
    /\ stepVisuals[plan[Len(plan)].stepNumber].id = id
C37_DerivedFromFinalImage ==
    /\ videoUrl # Null => FinalImageIs(videoUrl[1])
    /\ nightVideoUrl # Null => FinalImageIs(nightVideoUrl[1])
    /\ \A c \in DOMAIN variants : FinalImageIs(variants[c])

\* C38: generatingStepIndex is set exactly while an automatic step-image call
\* of the current session is outstanding, and names the step of that call;
\* calls of a session that was reset do not count.
CurrentAuto == {r \in PendingOf("auto") : r.epoch = epoch}
C38_MarkerAccurate ==
    /\ generatingStepIndex = Null <=> CurrentAuto = {}
    /\ \A r \in CurrentAuto : generatingStepIndex = Some(r.step)

\* C39: saving an edit never changes the number of substeps of any step, and
\* a save of the text the edit started with (nothing was typed) rewrites the
\* substep the edit started on with its own text, so it leaves the plan as
\* it is.
SaveStep ==
    /\ editingSubstep # Null /\ editingSubstep' = Null
    /\ ~effectPending /\ effectPending'
C39_SaveTargetsEditedSubstep ==
    [][SaveStep =>
         /\ \A i \in DOMAIN plan :
               Len(plan'[i].substeps) = Len(plan[i].substeps)
         /\ editValue \notin TypedTexts => plan' = plan]_vars

\* C40: the application shows the result only with a plan, and every
\* step-image call and every variant, video or audio request is started by
\* a step taken on the result screen of a plan.
ResultHasPlan == appState = "RESULT" => plan # Null
====
